---- MODULE Spec2Model ----
(***************************************************************************)
(* Model of src/boat_ui.py: the Boat / CargoBoat / MilitaryBoat classes,   *)
(* the Fleet registry and its file persistence.                            *)
(*                                                                         *)
(* Python values are tagged records [t |-> type, v |-> value]; strings are *)
(* sequences of one-character strings.  Objects live in `heap`, a sequence *)
(* in allocation order, and are referred to by their index (object         *)
(* identity: the classes define no __eq__, so `in` and list.remove compare *)
(* by identity).  The "[YYYY-MM-DD HH:MM:SS] " prefix that record_log and  *)
(* log_position put in front of an entry is read from the wall clock and   *)
(* is not part of the model: an entry is the text after the prefix.        *)
(***************************************************************************)
EXTENDS Integers, Sequences, FiniteSets, TLC

\* ------------------------------------------------------------------ bounds
MaxBoats == 2      \* objects ever allocated (constructor calls and load)
MaxCalls == 5      \* calls made in one session
MaxFleetLen == 3   \* boats in the fleet a query session starts from

\* ------------------------------------------------------------ Python values
PyNone == [t |-> "none", v |-> "None"]
PyStr(s) == [t |-> "str", v |-> s]
PyNum(n) == [t |-> "num", v |-> n]
PyBool(b) == [t |-> "bool", v |-> b]
PyDate(d) == [t |-> "date", v |-> d]

Fleets == {"A", "B"}
NoFleet == "None"
\* fleet_data.json is absent
NoFile == [exists |-> FALSE, boats |-> <<>>, logs |-> <<>>]

\* isinstance(x, str)
IsStr(x) == x.t = "str"
\* isinstance(x, (int, float)); bool is a subclass of int
IsNumber(x) == x.t \in {"num", "bool"}
NumVal(x) == IF x.t = "bool" THEN (IF x.v THEN 1 ELSE 0) ELSE x.v

RECURSIVE LStrip(_)
LStrip(s) == IF s # <<>> /\ Head(s) = " " THEN LStrip(Tail(s)) ELSE s

RECURSIVE RStrip(_)
RStrip(s) == IF s # <<>> /\ s[Len(s)] = " " THEN RStrip(SubSeq(s, 1, Len(s) - 1)) ELSE s

\* str.strip()
Strip(s) == RStrip(LStrip(s))

\* str(date): the ISO text of day d, written here as the two characters "d", digit
DayDigit == <<"1", "2", "3">>
IsoFormat(d) == <<"d", DayDigit[d]>>

\* datetime.fromtimestamp(ts).date(): the day a timestamp falls on
FromTimestamp(ts) == PyDate((NumVal(ts) \div 86400) + 1)

\* str(x) as to_dict applies it to launch_date
StrOf(x) ==
    CASE x.t = "str" -> x
      [] x.t = "date" -> PyStr(IsoFormat(x.v))
      [] x.t = "num" -> PyStr(<<"n", DayDigit[x.v \div 86400 + 1]>>)
      [] x.t = "bool" -> PyStr(IF x.v THEN <<"T">> ELSE <<"F">>)
      [] OTHER -> PyStr(<<"N">>)

Raised(exc) == [err |-> TRUE, exc |-> exc]
Built(obj) == [err |-> FALSE, obj |-> obj]

\* ------------------------------------------------------------ constructors
\* mutant of BoatInit: the texts are tested without strip()
BoatInitNoStrip(name, launch_date, home_port, flag) ==
    IF ~IsStr(name) \/ name.v = <<>> THEN Raised("ValueError")
    ELSE IF ~IsStr(home_port) \/ home_port.v = <<>> THEN Raised("ValueError")
    ELSE IF ~IsStr(flag) \/ flag.v = <<>> THEN Raised("ValueError")
    ELSE IF launch_date = PyNone THEN Raised("ValueError")
    ELSE Built([cls |-> "Boat",
                name |-> name,
                launch_date |-> IF IsNumber(launch_date)
                                  THEN FromTimestamp(launch_date)
                                  ELSE launch_date,
                home_port |-> home_port,
                flag |-> flag,
                current_fleet |-> NoFleet,
                fleet_history |-> <<>>,
                current_position |-> PyNone,
                position_logs |-> <<>>])

\* Boat.__init__
BoatInit(name, launch_date, home_port, flag) ==
    IF ~IsStr(name) \/ Strip(name.v) = <<>> THEN Raised("ValueError")
    ELSE IF ~IsStr(home_port) \/ Strip(home_port.v) = <<>> THEN Raised("ValueError")
    ELSE IF ~IsStr(flag) \/ Strip(flag.v) = <<>> THEN Raised("ValueError")
    ELSE IF launch_date = PyNone THEN Raised("ValueError")
    ELSE Built([cls |-> "Boat",
                name |-> name,
                launch_date |-> IF IsNumber(launch_date)
                                  THEN FromTimestamp(launch_date)
                                  ELSE launch_date,
                home_port |-> home_port,
                flag |-> flag,
                current_fleet |-> NoFleet,
                fleet_history |-> <<>>,
                current_position |-> PyNone,
                position_logs |-> <<>>])

\* mutant of CargoBoatInit: a capacity of zero is rejected too
CargoBoatInitRejectsZero(name, launch_date, home_port, flag, cargo_capacity) ==
    LET base == BoatInit(name, launch_date, home_port, flag) IN
    IF base.err THEN base
    ELSE IF ~IsNumber(cargo_capacity) THEN Raised("TypeError")
    ELSE IF NumVal(cargo_capacity) <= 0 THEN Raised("ValueError")
    ELSE Built([base.obj EXCEPT !.cls = "CargoBoat"]
               @@ [cargo_capacity |-> cargo_capacity])

\* CargoBoat.__init__
CargoBoatInit(name, launch_date, home_port, flag, cargo_capacity) ==
    LET base == BoatInit(name, launch_date, home_port, flag) IN
    IF base.err THEN base
    ELSE IF ~IsNumber(cargo_capacity) THEN Raised("TypeError")
    ELSE IF NumVal(cargo_capacity) < 0 THEN Raised("ValueError")
    ELSE Built([base.obj EXCEPT !.cls = "CargoBoat"]
               @@ [cargo_capacity |-> cargo_capacity])

\* MilitaryBoat.__init__
MilitaryBoatInit(name, launch_date, home_port, flag, weapon_count, is_authorised_by_gov) ==
    LET base == BoatInit(name, launch_date, home_port, flag) IN
    IF base.err THEN base
    ELSE IF ~IsNumber(weapon_count) THEN Raised("TypeError")
    ELSE IF NumVal(weapon_count) < 0 THEN Raised("ValueError")
    ELSE IF is_authorised_by_gov.t # "bool" THEN Raised("TypeError")
    ELSE Built([base.obj EXCEPT !.cls = "MilitaryBoat"]
               @@ [weapon_count |-> weapon_count,
                   is_authorised_by_gov |-> is_authorised_by_gov])

\* isinstance(b, CargoBoat), isinstance(b, MilitaryBoat)
IsCargoBoat(b) == b.cls = "CargoBoat"
IsMilitaryBoat(b) == b.cls = "MilitaryBoat"

\* ------------------------------------------------------------ serialization
\* Boat.to_dict
BoatToDict(b) ==
    [name |-> b.name,
     launch_date |-> StrOf(b.launch_date),
     home_port |-> b.home_port,
     flag |-> b.flag,
     current_position |-> b.current_position,
     position_logs |-> b.position_logs]

\* CargoBoat.to_dict
CargoBoatToDict(b) == BoatToDict(b) @@ [cargo_capacity |-> b.cargo_capacity]

\* MilitaryBoat.to_dict
MilitaryBoatToDict(b) ==
    BoatToDict(b) @@ [weapon_count |-> b.weapon_count,
                      is_authorised_by_gov |-> b.is_authorised_by_gov]

\* boat.to_dict() with the method resolved on the object's class
ToDict(b) ==
    IF IsCargoBoat(b) THEN CargoBoatToDict(b)
    ELSE IF IsMilitaryBoat(b) THEN MilitaryBoatToDict(b)
    ELSE BoatToDict(b)

\* ------------------------------------------------------------------- state
VARIABLES
    heap,   \* the Boat objects allocated so far, in allocation order
    boats,  \* boats[f]: Fleet.boats of fleet f, a list of object ids
    logs,   \* logs[f]: Fleet.logs of fleet f
    file,   \* the contents of fleet_data.json, or NoFile
    last,   \* the last call made and the value it returned (or the exception)
    calls   \* the number of calls made so far

vars == <<heap, boats, logs, file, last, calls>>

\* a reference to the object with id i, as a Python value
Ref(i) == [t |-> "obj", v |-> i]
\* isinstance(x, Boat)
IsBoat(x) == x.t = "obj"

Objects == {Ref(i) : i \in 1..Len(heap)}

\* x in xs, for a list of object ids
Contains(xs, i) == \E k \in 1..Len(xs) : xs[k] = i

\* mutant of ListRemove: the element is never taken out
ListRemoveKeepsAll(xs, i) == xs

\* list.remove(x): drops the first occurrence
ListRemove(xs, i) ==
    LET k == CHOOSE j \in 1..Len(xs) : xs[j] = i /\ \A m \in 1..(j - 1) : xs[m] # i
    IN SubSeq(xs, 1, k - 1) \o SubSeq(xs, k + 1, Len(xs))

\* `boat not in self.boats`, the membership test of remove, transfer and record_arrival
NotInFleet(f, b) == ~Contains(boats[f], b.v)

Call(op, f, b, t, res) == [op |-> op, fleet |-> f, boat |-> b, target |-> t, res |-> res]

\* the returned strings that start with the failure mark
FailureResults == {"only_boat_objects", "not_found", "not_in_fleet", "save_error", "load_error"}

\* the text of an audit entry: f"{boat.name} <what>"
Entry(what, name) == [msg |-> what, name |-> name.v, location |-> <<>>]
ArrivalEntry(name, location) == [msg |-> "arrived at", name |-> name.v, location |-> location.v]

\* mutant of record_log: the entry is put in front (insert(0, entry))
record_logAtFront(lg, entry) == <<entry>> \o lg

\* mutant of record_log: the log is assigned the entry, not appended to
record_logKeepsLast(lg, entry) == <<entry>>

\* Fleet.record_log
record_log(lg, entry) == Append(lg, entry)

\* the text of a position entry: f"Position: {position}"
PositionEntry(position) == [msg |-> "Position", position |-> position.v]

\* ------------------------------------------------------------------ inputs
Name1 == PyStr(<<"b">>)
Name2 == PyStr(<<"a">>)
Port1 == PyStr(<<"L">>)
Flag1 == PyStr(<<"x">>)
Locations == {PyStr(<<"O">>)}
Positions == {PyStr(<<"p">>), PyStr(<<"x">>)}

\* the constructor calls a caller makes
CtorCalls ==
    { [cls |-> "Boat", name |-> Name1, launch_date |-> PyDate(1),
       home_port |-> Port1, flag |-> Flag1],
      [cls |-> "Boat", name |-> PyStr(<<" ">>), launch_date |-> PyDate(1),
       home_port |-> Port1, flag |-> Flag1],
      [cls |-> "CargoBoat", name |-> Name2, launch_date |-> PyStr(IsoFormat(1)),
       home_port |-> Port1, flag |-> Flag1, cargo_capacity |-> PyNum(5)],
      [cls |-> "MilitaryBoat", name |-> Name2, launch_date |-> PyNum(86400),
       home_port |-> Port1, flag |-> Flag1, weapon_count |-> PyNum(0),
       is_authorised_by_gov |-> PyBool(TRUE)] }

\* the class named in a constructor call, applied to its arguments
Construct(c) ==
    IF c.cls = "CargoBoat"
      THEN CargoBoatInit(c.name, c.launch_date, c.home_port, c.flag, c.cargo_capacity)
    ELSE IF c.cls = "MilitaryBoat"
      THEN MilitaryBoatInit(c.name, c.launch_date, c.home_port, c.flag,
                            c.weapon_count, c.is_authorised_by_gov)
    ELSE BoatInit(c.name, c.launch_date, c.home_port, c.flag)

\* -------------------------------------------------------------------- Init
\* Fleet.__init__ for every fleet; nothing constructed, nothing saved
Init ==
    /\ heap = <<>>
    /\ boats = [f \in Fleets |-> <<>>]
    /\ logs = [f \in Fleets |-> <<>>]
    /\ file = NoFile
    /\ last = Call("init", NoFleet, PyNone, NoFleet, "none")
    /\ calls = 0

\* ----------------------------------------------------------------- actions
\* a caller constructs a boat: Boat(...), CargoBoat(...) or MilitaryBoat(...)
NewBoat ==
    \E c \in CtorCalls :
        LET r == Construct(c) IN
        /\ Len(heap) < MaxBoats
        /\ IF r.err
             THEN /\ heap' = heap
                  /\ last' = Call(c.cls, NoFleet, PyNone, NoFleet, r.exc)
             ELSE /\ heap' = Append(heap, r.obj)
                  /\ last' = Call(c.cls, NoFleet, Ref(Len(heap) + 1), NoFleet, "created")
        /\ UNCHANGED <<boats, logs, file>>

\* mutant of AddEffect: the add writes no audit entry
AddEffectNoLog(f, i, h, bs, lg) ==
    [heap |-> [h EXCEPT ![i].current_fleet = f,
                        ![i].fleet_history = Append(@, f)],
     boats |-> [bs EXCEPT ![f] = Append(@, i)],
     logs |-> lg]

\* mutant of AddEffect: a boat already in the list is not appended again
AddEffectNoDuplicate(f, i, h, bs, lg) ==
    [heap |-> [h EXCEPT ![i].current_fleet = f,
                        ![i].fleet_history = Append(@, f)],
     boats |-> [bs EXCEPT ![f] = IF Contains(@, i) THEN @ ELSE Append(@, i)],
     logs |-> [lg EXCEPT ![f] = Append(@, [msg |-> "joined the fleet.",
                                          name |-> h[i].name.v,
                                          location |-> <<>>])]]

\* mutant of AddEffect: fleet_history is assigned [self], not appended to
AddEffectResetsHistory(f, i, h, bs, lg) ==
    [heap |-> [h EXCEPT ![i].current_fleet = f,
                        ![i].fleet_history = <<f>>],
     boats |-> [bs EXCEPT ![f] = Append(@, i)],
     logs |-> [lg EXCEPT ![f] = record_log(@, Entry("joined the fleet.", h[i].name))]]

\* the effect of Fleet.add_boat past its isinstance check
AddEffect(f, i, h, bs, lg) ==
    [heap |-> [h EXCEPT ![i].current_fleet = f,
                        ![i].fleet_history = Append(@, f)],
     boats |-> [bs EXCEPT ![f] = Append(@, i)],
     logs |-> [lg EXCEPT ![f] = record_log(@, Entry("joined the fleet.", h[i].name))]]

\* Fleet.add_boat
AddBoat(f, b) ==
    IF ~IsBoat(b)
      THEN /\ last' = Call("add_boat", f, b, NoFleet, "only_boat_objects")
           /\ UNCHANGED <<heap, boats, logs, file>>
      ELSE LET e == AddEffect(f, b.v, heap, boats, logs) IN
           /\ heap' = e.heap
           /\ boats' = e.boats
           /\ logs' = e.logs
           /\ last' = Call("add_boat", f, b, NoFleet, "added")
           /\ UNCHANGED file

\* mutant of RemoveBoat: current_fleet is not cleared
RemoveBoatKeepsFleet(f, b) ==
    IF NotInFleet(f, b)
      THEN /\ last' = Call("remove_boat", f, b, NoFleet, "not_found")
           /\ UNCHANGED <<heap, boats, logs, file>>
      ELSE /\ boats' = [boats EXCEPT ![f] = ListRemove(@, b.v)]
           /\ logs' = [logs EXCEPT ![f] =
                          Append(@, [msg |-> "was removed from the fleet.",
                                     name |-> heap[b.v].name.v,
                                     location |-> <<>>])]
           /\ last' = Call("remove_boat", f, b, NoFleet, "removed")
           /\ UNCHANGED <<heap, file>>

\* Fleet.remove_boat
RemoveBoat(f, b) ==
    IF NotInFleet(f, b)
      THEN /\ last' = Call("remove_boat", f, b, NoFleet, "not_found")
           /\ UNCHANGED <<heap, boats, logs, file>>
      ELSE /\ boats' = [boats EXCEPT ![f] = ListRemove(@, b.v)]
           /\ heap' = [heap EXCEPT ![b.v].current_fleet = NoFleet]
           /\ logs' = [logs EXCEPT ![f] =
                          record_log(@, Entry("was removed from the fleet.", heap[b.v].name))]
           /\ last' = Call("remove_boat", f, b, NoFleet, "removed")
           /\ UNCHANGED file

\* mutant of TransferBoat: the boat is not removed from the source list
TransferBoatCopies(f, b, t) ==
    IF NotInFleet(f, b)
      THEN /\ last' = Call("transfer_boat", f, b, t, "not_found")
           /\ UNCHANGED <<heap, boats, logs, file>>
      ELSE LET name == heap[b.v].name
               lg1 == [logs EXCEPT ![f] =
                          record_log(@, Entry("left this fleet for another.", name))]
               e == AddEffect(t, b.v, heap, boats, lg1)
               lg3 == [e.logs EXCEPT ![f] =
                          record_log(@, Entry("transferred to new fleet.", name))]
           IN
           /\ heap' = e.heap
           /\ boats' = e.boats
           /\ logs' = lg3
           /\ last' = Call("transfer_boat", f, b, t, "transferred")
           /\ UNCHANGED file

\* Fleet.transfer_boat
TransferBoat(f, b, t) ==
    IF NotInFleet(f, b)
      THEN /\ last' = Call("transfer_boat", f, b, t, "not_found")
           /\ UNCHANGED <<heap, boats, logs, file>>
      ELSE LET name == heap[b.v].name
               bs1 == [boats EXCEPT ![f] = ListRemove(@, b.v)]
               lg1 == [logs EXCEPT ![f] =
                          record_log(@, Entry("left this fleet for another.", name))]
               e == AddEffect(t, b.v, heap, bs1, lg1)
               lg3 == [e.logs EXCEPT ![f] =
                          record_log(@, Entry("transferred to new fleet.", name))]
           IN
           /\ heap' = e.heap
           /\ boats' = e.boats
           /\ logs' = lg3
           /\ last' = Call("transfer_boat", f, b, t, "transferred")
           /\ UNCHANGED file

\* mutant of RecordArrival: the entry is written before the membership test
RecordArrivalLogsFirst(f, b, location) ==
    /\ logs' = [logs EXCEPT ![f] =
                   Append(@, [msg |-> "arrived at",
                              name |-> heap[b.v].name.v,
                              location |-> location.v])]
    /\ last' = Call("record_arrival", f, b, NoFleet,
                    IF NotInFleet(f, b) THEN "not_in_fleet" ELSE "arrival_recorded")
    /\ UNCHANGED <<heap, boats, file>>

\* mutant of RecordArrival: the arrival also becomes the boat's current position
RecordArrivalSetsPosition(f, b, location) ==
    IF NotInFleet(f, b)
      THEN /\ last' = Call("record_arrival", f, b, NoFleet, "not_in_fleet")
           /\ UNCHANGED <<heap, boats, logs, file>>
      ELSE /\ logs' = [logs EXCEPT ![f] =
                          record_log(@, ArrivalEntry(heap[b.v].name, location))]
           /\ heap' = [heap EXCEPT ![b.v].current_position = location]
           /\ last' = Call("record_arrival", f, b, NoFleet, "arrival_recorded")
           /\ UNCHANGED <<boats, file>>

\* Fleet.record_arrival
RecordArrival(f, b, location) ==
    IF NotInFleet(f, b)
      THEN /\ last' = Call("record_arrival", f, b, NoFleet, "not_in_fleet")
           /\ UNCHANGED <<heap, boats, logs, file>>
      ELSE /\ logs' = [logs EXCEPT ![f] =
                          record_log(@, ArrivalEntry(heap[b.v].name, location))]
           /\ last' = Call("record_arrival", f, b, NoFleet, "arrival_recorded")
           /\ UNCHANGED <<heap, boats, file>>

\* mutant of LogPosition: the entry is put in front of position_logs
LogPositionAtFront(b, position) ==
    /\ heap' = [heap EXCEPT ![b.v].current_position = position,
                            ![b.v].position_logs = <<PositionEntry(position)>> \o @]
    /\ last' = Call("log_position", NoFleet, b, NoFleet, "position_logged")
                    @@ [arg |-> position]
    /\ UNCHANGED <<boats, logs, file>>

\* mutant of LogPosition: logging a position also unbinds the boat from its fleet
LogPositionUnbinds(b, position) ==
    /\ heap' = [heap EXCEPT ![b.v].current_position = position,
                            ![b.v].position_logs = Append(@, PositionEntry(position)),
                            ![b.v].current_fleet = NoFleet]
    /\ last' = Call("log_position", NoFleet, b, NoFleet, "position_logged")
                    @@ [arg |-> position]
    /\ UNCHANGED <<boats, logs, file>>

\* Boat.log_position
LogPosition(b, position) ==
    /\ heap' = [heap EXCEPT ![b.v].current_position = position,
                            ![b.v].position_logs = Append(@, PositionEntry(position))]
    /\ last' = Call("log_position", NoFleet, b, NoFleet, "position_logged")
                    @@ [arg |-> position]
    /\ UNCHANGED <<boats, logs, file>>

\* the characters of the model in code-point order
CodePoints ==
    <<" ", "1", "2", "3", "B", "F", "L", "N", "O", "T", "X",
      "a", "b", "d", "l", "n", "o", "p", "x">>
Ord(c) == CHOOSE k \in 1..Len(CodePoints) : CodePoints[k] = c

\* s < t on str values: lexicographic by code point
RECURSIVE StrLess(_, _)
StrLess(s, t) ==
    IF t = <<>> THEN FALSE
    ELSE IF s = <<>> THEN TRUE
    ELSE IF Head(s) = Head(t) THEN StrLess(Tail(s), Tail(t))
    ELSE Ord(Head(s)) < Ord(Head(t))

\* mutant of InsertByName: i goes in front of the elements with an equal key
RECURSIVE InsertByNameBeforeEqual(_, _, _)
InsertByNameBeforeEqual(h, sorted, i) ==
    IF sorted = <<>> THEN <<i>>
    ELSE IF ~StrLess(h[Head(sorted)].name.v, h[i].name.v) THEN <<i>> \o sorted
    ELSE <<Head(sorted)>> \o InsertByNameBeforeEqual(h, Tail(sorted), i)

\* one step of a stable sort: i goes after every element whose key is not greater
RECURSIVE InsertByName(_, _, _)
InsertByName(h, sorted, i) ==
    IF sorted = <<>> THEN <<i>>
    ELSE IF StrLess(h[i].name.v, h[Head(sorted)].name.v) THEN <<i>> \o sorted
    ELSE <<Head(sorted)>> \o InsertByName(h, Tail(sorted), i)

\* list.sort(key=lambda boat: boat.name): stable, ascending
RECURSIVE SortByName(_, _)
SortByName(h, xs) ==
    IF xs = <<>> THEN <<>>
    ELSE InsertByName(h, SortByName(h, SubSeq(xs, 1, Len(xs) - 1)), xs[Len(xs)])

\* Fleet.sort_boats
SortBoats(f) ==
    IF boats[f] = <<>>
      THEN /\ last' = Call("sort_boats", f, PyNone, NoFleet, "empty_fleet")
           /\ UNCHANGED <<heap, boats, logs, file>>
      ELSE /\ boats' = [boats EXCEPT ![f] = SortByName(heap, @)]
           /\ last' = Call("sort_boats", f, PyNone, NoFleet, "sorted")
           /\ UNCHANGED <<heap, logs, file>>

\* json.dump followed by json.load: strings, numbers, booleans, None, lists and
\* dicts with string keys come back as they were written
JsonRoundTrip(data) == data

\* the document save_to_file writes (saved_date, which load never reads, left out)
SavedData(f) ==
    [exists |-> TRUE,
     boats |-> [k \in 1..Len(boats[f]) |-> ToDict(heap[boats[f][k]])],
     logs |-> logs[f]]

\* Fleet.save_to_file
SaveToFile(f) ==
    /\ file' = JsonRoundTrip(SavedData(f))
    /\ last' = Call("save_to_file", f, PyNone, NoFleet, "saved")
    /\ UNCHANGED <<heap, boats, logs>>

HasKey(d, k) == k \in DOMAIN d

\* mutant of LoadOne: weapon_count is looked for before cargo_capacity
LoadOneWeaponFirst(boat_data) ==
    IF ~HasKey(boat_data, "launch_date") THEN Raised("KeyError")
    ELSE
    LET made ==
            IF HasKey(boat_data, "weapon_count")
              THEN IF ~HasKey(boat_data, "name") \/ ~HasKey(boat_data, "home_port")
                      \/ ~HasKey(boat_data, "flag")
                      \/ ~HasKey(boat_data, "is_authorised_by_gov")
                     THEN Raised("KeyError")
                     ELSE MilitaryBoatInit(boat_data.name, boat_data.launch_date,
                                           boat_data.home_port, boat_data.flag,
                                           boat_data.weapon_count,
                                           boat_data.is_authorised_by_gov)
            ELSE IF HasKey(boat_data, "cargo_capacity")
              THEN IF ~HasKey(boat_data, "name") \/ ~HasKey(boat_data, "home_port")
                      \/ ~HasKey(boat_data, "flag")
                     THEN Raised("KeyError")
                     ELSE CargoBoatInit(boat_data.name, boat_data.launch_date,
                                        boat_data.home_port, boat_data.flag,
                                        boat_data.cargo_capacity)
            ELSE IF ~HasKey(boat_data, "name") \/ ~HasKey(boat_data, "home_port")
                    \/ ~HasKey(boat_data, "flag")
                   THEN Raised("KeyError")
                   ELSE BoatInit(boat_data.name, boat_data.launch_date,
                                 boat_data.home_port, boat_data.flag)
    IN
    IF made.err THEN made
    ELSE LET p1 == IF HasKey(boat_data, "current_position")
                     THEN [made.obj EXCEPT !.current_position = boat_data.current_position]
                     ELSE made.obj
             p2 == IF HasKey(boat_data, "position_logs")
                     THEN [p1 EXCEPT !.position_logs = boat_data.position_logs]
                     ELSE p1
         IN Built(p2)

\* the body of load_from_file's loop for one boat_data
LoadOne(boat_data) ==
    IF ~HasKey(boat_data, "launch_date") THEN Raised("KeyError")
    ELSE
    LET made ==
            IF HasKey(boat_data, "cargo_capacity")
              THEN IF ~HasKey(boat_data, "name") \/ ~HasKey(boat_data, "home_port")
                      \/ ~HasKey(boat_data, "flag")
                     THEN Raised("KeyError")
                     ELSE CargoBoatInit(boat_data.name, boat_data.launch_date,
                                        boat_data.home_port, boat_data.flag,
                                        boat_data.cargo_capacity)
            ELSE IF HasKey(boat_data, "weapon_count")
              THEN IF ~HasKey(boat_data, "name") \/ ~HasKey(boat_data, "home_port")
                      \/ ~HasKey(boat_data, "flag")
                      \/ ~HasKey(boat_data, "is_authorised_by_gov")
                     THEN Raised("KeyError")
                     ELSE MilitaryBoatInit(boat_data.name, boat_data.launch_date,
                                           boat_data.home_port, boat_data.flag,
                                           boat_data.weapon_count,
                                           boat_data.is_authorised_by_gov)
            ELSE IF ~HasKey(boat_data, "name") \/ ~HasKey(boat_data, "home_port")
                    \/ ~HasKey(boat_data, "flag")
                   THEN Raised("KeyError")
                   ELSE BoatInit(boat_data.name, boat_data.launch_date,
                                 boat_data.home_port, boat_data.flag)
    IN
    IF made.err THEN made
    ELSE LET p1 == IF HasKey(boat_data, "current_position")
                     THEN [made.obj EXCEPT !.current_position = boat_data.current_position]
                     ELSE made.obj
             p2 == IF HasKey(boat_data, "position_logs")
                     THEN [p1 EXCEPT !.position_logs = boat_data.position_logs]
                     ELSE p1
         IN Built(p2)

\* load_from_file's loop over data["boats"]: stops at the first exception, keeping
\* what it has appended so far
RECURSIVE LoadLoop(_, _, _, _)
LoadLoop(docs, f, h, bs) ==
    IF docs = <<>> THEN [err |-> FALSE, heap |-> h, boats |-> bs]
    ELSE LET r == LoadOne(Head(docs)) IN
         IF r.err THEN [err |-> TRUE, heap |-> h, boats |-> bs]
         ELSE LoadLoop(Tail(docs), f,
                       Append(h, [r.obj EXCEPT !.current_fleet = f,
                                               !.fleet_history = Append(@, f)]),
                       Append(bs, Len(h) + 1))

\* mutant of LoadFromFile: the loaded boats and logs are merged into the old ones
LoadFromFileMerges(f) ==
    IF ~file.exists
      THEN /\ last' = Call("load_from_file", f, PyNone, NoFleet, "no_saved_data")
           /\ UNCHANGED <<heap, boats, logs, file>>
      ELSE LET r == LoadLoop(file.boats, f, heap, boats[f]) IN
           /\ Len(heap) + Len(file.boats) <= MaxBoats
           /\ heap' = r.heap
           /\ boats' = [boats EXCEPT ![f] = r.boats]
           /\ logs' = [logs EXCEPT ![f] = @ \o file.logs]
           /\ last' = Call("load_from_file", f, PyNone, NoFleet,
                           IF r.err THEN "load_error" ELSE "loaded")
           /\ UNCHANGED file

\* mutant of LoadFromFile: self.boats is cleared before the file is opened
LoadFromFileClearsFirst(f) ==
    IF ~file.exists
      THEN /\ boats' = [boats EXCEPT ![f] = <<>>]
           /\ last' = Call("load_from_file", f, PyNone, NoFleet, "no_saved_data")
           /\ UNCHANGED <<heap, logs, file>>
      ELSE LET r == LoadLoop(file.boats, f, heap, <<>>) IN
           /\ Len(heap) + Len(file.boats) <= MaxBoats
           /\ heap' = r.heap
           /\ boats' = [boats EXCEPT ![f] = r.boats]
           /\ logs' = [logs EXCEPT ![f] = file.logs]
           /\ last' = Call("load_from_file", f, PyNone, NoFleet,
                           IF r.err THEN "load_error" ELSE "loaded")
           /\ UNCHANGED file

\* Fleet.load_from_file
LoadFromFile(f) ==
    IF ~file.exists
      THEN /\ last' = Call("load_from_file", f, PyNone, NoFleet, "no_saved_data")
           /\ UNCHANGED <<heap, boats, logs, file>>
      ELSE LET r == LoadLoop(file.boats, f, heap, <<>>) IN
           /\ Len(heap) + Len(file.boats) <= MaxBoats
           /\ heap' = r.heap
           /\ boats' = [boats EXCEPT ![f] = r.boats]
           /\ logs' = [logs EXCEPT ![f] = file.logs]
           /\ last' = Call("load_from_file", f, PyNone, NoFleet,
                           IF r.err THEN "load_error" ELSE "loaded")
           /\ UNCHANGED file

\* ---------------------------------------------------------- specification
\* one more call is made in this session
Called == calls < MaxCalls /\ calls' = calls + 1

Next ==
    \/ Called /\ NewBoat
    \/ \E f \in Fleets, b \in Objects \cup {PyNone} : Called /\ AddBoat(f, b)
    \/ \E f \in Fleets, b \in Objects : Called /\ RemoveBoat(f, b)
    \/ \E f \in Fleets, b \in Objects, t \in Fleets : Called /\ TransferBoat(f, b, t)
    \/ \E f \in Fleets, b \in Objects, l \in Locations : Called /\ RecordArrival(f, b, l)
    \/ \E b \in Objects, p \in Positions : Called /\ LogPosition(b, p)
    \/ \E f \in Fleets : Called /\ SortBoats(f)
    \/ \E f \in Fleets : Called /\ SaveToFile(f)
    \/ \E f \in Fleets : Called /\ LoadFromFile(f)

Spec == Init /\ [][Next]_vars

\* ------------------------------------------------------- claim vocabulary
Count(xs, i) == Cardinality({k \in 1..Len(xs) : xs[k] = i})
IsPrefix(s, t) == Len(s) <= Len(t) /\ SubSeq(t, 1, Len(s)) = s
\* the entries a step appended to a log that only grew
Appended(old, new) == SubSeq(new, Len(old) + 1, Len(new))
Without(s, e) == SelectSeq(s, LAMBDA x : x # e)

Returned(op, res) == last.op = op /\ last.res = res

\* C1: every boat's current_fleet is unset or names a fleet whose boats list
\* contains that boat.
C1_MembershipPointerValid ==
    \A i \in 1..Len(heap) :
        heap[i].current_fleet = NoFleet \/ Contains(boats[heap[i].current_fleet], i)

\* C2 as claimed: after a successful A.transfer(v, B), v is absent from A.boats and
\* present in B.boats, whatever A, B and the number of occurrences of v in A.
C2_TransferLeavesSource ==
    [][Returned("transfer_boat", "transferred")' =>
          /\ ~Contains(boats'[last'.fleet], last'.boat.v)
          /\ Contains(boats'[last'.target], last'.boat.v)]_vars

\* C2 amended: after a successful A.transfer(v, B), v is present in B.boats, as its
\* last element; v is absent from A.boats when B is not A and v occurred exactly once
\* in A.boats; when B is not A, A.boats has lost exactly one occurrence of v.
C2_TransferMovesOneOccurrence ==
    [][Returned("transfer_boat", "transferred")' =>
          LET f == last'.fleet
              t == last'.target
              i == last'.boat.v
          IN /\ boats'[t] # <<>> /\ boats'[t][Len(boats'[t])] = i
             /\ (t # f /\ Count(boats[f], i) = 1) => ~Contains(boats'[f], i)
             /\ t # f => Count(boats'[f], i) = Count(boats[f], i) - 1]_vars

C2_Witness ==
    /\ Returned("transfer_boat", "transferred")
    /\ last.target # last.fleet
    /\ ~Contains(boats[last.fleet], last.boat.v)
    /\ Contains(boats[last.target], last.boat.v)

C4_JoinedOnSourceLog ==
    [][(Returned("transfer_boat", "transferred")' /\ last'.target # last'.fleet) =>
          LET joined == Entry("joined the fleet.", heap[last'.boat.v].name)
          IN /\ logs'[last'.target] = logs[last'.target]
             /\ \E k \in (Len(logs[last'.fleet]) + 1)..Len(logs'[last'.fleet]) :
                    logs'[last'.fleet][k] = joined]_vars

\* C4 amended: in a successful transfer to a different fleet the "joined the fleet."
\* entry goes to the target fleet's log, which gains exactly that entry; the source
\* fleet's log gains exactly the "left" and "transferred" entries and no "joined".
C4_JoinedOnTargetLog ==
    [][(Returned("transfer_boat", "transferred")' /\ last'.target # last'.fleet) =>
          LET name == heap[last'.boat.v].name
          IN /\ logs'[last'.target] =
                    Append(logs[last'.target], Entry("joined the fleet.", name))
             /\ logs'[last'.fleet] =
                    logs[last'.fleet] \o <<Entry("left this fleet for another.", name),
                                           Entry("transferred to new fleet.", name)>>]_vars

C4_Witness ==
    /\ Returned("transfer_boat", "transferred")
    /\ last.target # last.fleet
    /\ logs[last.target] # <<>>
    /\ logs[last.target][Len(logs[last.target])].msg = "joined the fleet."
    /\ logs[last.fleet][Len(logs[last.fleet])].msg = "transferred to new fleet."

\* C5 as claimed: R.add(v) followed by R.remove(v) leaves v.current_fleet unset and v
\* absent from R.boats, and a further R.remove(v) returns "not found", for every R in
\* any reachable state.
C5_RemoveUndoesAdd ==
    [][(/\ Returned("add_boat", "added")
        /\ last'.op = "remove_boat"
        /\ last'.fleet = last.fleet
        /\ last'.boat = last.boat) =>
          /\ heap'[last.boat.v].current_fleet = NoFleet
          /\ ~Contains(boats'[last.fleet], last.boat.v)
          /\ NotInFleet(last.fleet, last.boat)']_vars

\* C5 amended: the same, for a v that was not in R.boats before the add (so that it
\* occurs exactly once in R.boats after it).
C5_RemoveUndoesFirstAdd ==
    [][(/\ Returned("add_boat", "added")
        /\ Count(boats[last.fleet], last.boat.v) = 1
        /\ last'.op = "remove_boat"
        /\ last'.fleet = last.fleet
        /\ last'.boat = last.boat) =>
          /\ last'.res = "removed"
          /\ heap'[last.boat.v].current_fleet = NoFleet
          /\ ~Contains(boats'[last.fleet], last.boat.v)
          /\ NotInFleet(last.fleet, last.boat)']_vars

\* new, add, remove: the log of the fleet is the trail of the two calls
C5_Witness ==
    /\ Returned("remove_boat", "removed")
    /\ calls = 3
    /\ Len(heap) = 1
    /\ logs[last.fleet] = <<Entry("joined the fleet.", heap[1].name),
                            Entry("was removed from the fleet.", heap[1].name)>>
    /\ heap[1].current_fleet = NoFleet
    /\ NotInFleet(last.fleet, last.boat)

\* C6: a call of add, remove, transfer or record_arrival that returns a failure
\* result changes no fleet's boats or logs and no field of any boat.
C6_FailureChangesNothing ==
    [][(/\ last'.op \in {"add_boat", "remove_boat", "transfer_boat", "record_arrival"}
        /\ last'.res \in FailureResults) =>
          UNCHANGED <<heap, boats, logs>>]_vars

C6_Witness ==
    /\ Returned("transfer_boat", "not_found")
    /\ heap[last.boat.v].current_fleet = last.target
    /\ boats[last.target] # <<>>
    /\ logs[last.target] # <<>>

\* C7: R.add(v) appends v at the end of R.boats, keeping the earlier elements and
\* their order (also when v is already there), sets v.current_fleet to R, appends R to
\* v.fleet_history and appends the one entry "joined the fleet." to R.logs.
C7_AddAppends ==
    [][Returned("add_boat", "added")' =>
          LET f == last'.fleet
              i == last'.boat.v
          IN /\ boats'[f] = Append(boats[f], i)
             /\ heap'[i].current_fleet = f
             /\ heap'[i].fleet_history = Append(heap[i].fleet_history, f)
             /\ logs'[f] = Append(logs[f], Entry("joined the fleet.", heap[i].name))
             /\ \A g \in Fleets \ {f} : boats'[g] = boats[g] /\ logs'[g] = logs[g]]_vars

\* the same instance added twice
C7_Witness ==
    /\ Returned("add_boat", "added")
    /\ Count(boats[last.fleet], last.boat.v) = 2
    /\ Len(logs[last.fleet]) = 2

\* C8: in every step that is not a load, every fleet's logs and every boat's
\* position_logs only grow: the old value is a prefix of the new one.
C8_LogsOnlyGrow ==
    [][last'.op # "load_from_file" =>
          /\ \A f \in Fleets : IsPrefix(logs[f], logs'[f])
          /\ \A i \in 1..Len(heap) :
                 IsPrefix(heap[i].position_logs, heap'[i].position_logs)]_vars

C8_Witness ==
    /\ Returned("log_position", "position_logged")
    /\ Len(heap[last.boat.v].position_logs) = 2
    /\ \E f \in Fleets : Len(logs[f]) = 2

\* two boats agree in class and in every persisted field
SameBoat(x, y) ==
    /\ x.cls = y.cls
    /\ x.name = y.name
    /\ x.launch_date = y.launch_date
    /\ x.home_port = y.home_port
    /\ x.flag = y.flag
    /\ x.current_position = y.current_position
    /\ x.position_logs = y.position_logs
    /\ IsCargoBoat(x) => x.cargo_capacity = y.cargo_capacity
    /\ IsMilitaryBoat(x) => /\ x.weapon_count = y.weapon_count
                            /\ x.is_authorised_by_gov = y.is_authorised_by_gov

\* C9: a successful save followed by a load into a fresh fleet gives that fleet a
\* boats list equal to the saved one element by element, in class and in every field
\* (launch_date included), and a logs list identical to the saved one.
C9_SaveLoadRoundTrip ==
    [][(/\ Returned("save_to_file", "saved")
        /\ Returned("load_from_file", "loaded")'
        /\ last'.fleet # last.fleet
        /\ boats[last'.fleet] = <<>>
        /\ logs[last'.fleet] = <<>>) =>
          LET f == last.fleet
              g == last'.fleet
          IN /\ Len(boats'[g]) = Len(boats[f])
             /\ \A k \in 1..Len(boats[f]) :
                    SameBoat(heap'[boats'[g][k]], heap[boats[f][k]])
             /\ logs'[g] = logs[f]]_vars

\* the class load_from_file picks for a document, by the keys it has
ClassOfDocument(d) ==
    IF HasKey(d, "cargo_capacity") THEN "CargoBoat"
    ELSE IF HasKey(d, "weapon_count") THEN "MilitaryBoat"
    ELSE "Boat"

\* a boat carries what a document says
MatchesDocument(x, d) ==
    /\ x.cls = ClassOfDocument(d)
    /\ x.name = d.name
    /\ x.launch_date = d.launch_date
    /\ x.home_port = d.home_port
    /\ x.flag = d.flag
    /\ x.current_position = d.current_position
    /\ x.position_logs = d.position_logs
    /\ IsCargoBoat(x) => x.cargo_capacity = d.cargo_capacity
    /\ IsMilitaryBoat(x) => /\ x.weapon_count = d.weapon_count
                            /\ x.is_authorised_by_gov = d.is_authorised_by_gov

C11_MissingFileLoad ==
    [][(last'.op = "load_from_file" /\ ~file.exists) =>
          /\ last'.res = "no_saved_data"
          /\ last'.res \notin FailureResults
          /\ UNCHANGED <<heap, boats, logs, file>>]_vars

\* a load without a file on a fleet that holds a boat and a log
C11_Witness ==
    /\ Returned("load_from_file", "no_saved_data")
    /\ ~file.exists
    /\ boats[last.fleet] # <<>>
    /\ logs[last.fleet] # <<>>

\* ------------------------------------------- calls with arguments of any type
\* Fleet.remove_boat called with any value: a value that is not a Boat is in no
\* boats list, and the message then reads boat.name, which it does not have
RemoveBoatAnyArg(f, x) ==
    IF IsBoat(x) THEN RemoveBoat(f, x)
    ELSE /\ last' = Call("remove_boat", f, x, NoFleet, "AttributeError")
         /\ UNCHANGED <<heap, boats, logs, file>>

\* Fleet.record_arrival called with any value
RecordArrivalAnyArg(f, x, location) ==
    IF IsBoat(x) THEN RecordArrival(f, x, location)
    ELSE /\ last' = Call("record_arrival", f, x, NoFleet, "AttributeError")
         /\ UNCHANGED <<heap, boats, logs, file>>

\* Fleet.transfer_boat called with any value as boat and a fleet or None (NoFleet) as
\* new_fleet: with None, new_fleet.add_boat raises after the boat has been removed
\* and the first entry logged
TransferBoatAnyArg(f, x, t) ==
    IF ~IsBoat(x)
      THEN /\ last' = Call("transfer_boat", f, x, t, "AttributeError")
           /\ UNCHANGED <<heap, boats, logs, file>>
    ELSE IF t \in Fleets THEN TransferBoat(f, x, t)
    ELSE IF NotInFleet(f, x)
      THEN /\ last' = Call("transfer_boat", f, x, t, "not_found")
           /\ UNCHANGED <<heap, boats, logs, file>>
      ELSE /\ boats' = [boats EXCEPT ![f] = ListRemove(@, x.v)]
           /\ logs' = [logs EXCEPT ![f] =
                          record_log(@, Entry("left this fleet for another.",
                                              heap[x.v].name))]
           /\ last' = Call("transfer_boat", f, x, t, "AttributeError")
           /\ UNCHANGED <<heap, file>>

NextAnyArg ==
    \/ Called /\ NewBoat
    \/ \E f \in Fleets, b \in Objects \cup {PyNone} : Called /\ AddBoat(f, b)
    \/ \E f \in Fleets, b \in Objects \cup {PyNone} : Called /\ RemoveBoatAnyArg(f, b)
    \/ \E f \in Fleets, b \in Objects \cup {PyNone}, t \in Fleets \cup {NoFleet} :
           Called /\ TransferBoatAnyArg(f, b, t)
    \/ \E f \in Fleets, b \in Objects \cup {PyNone}, l \in Locations :
           Called /\ RecordArrivalAnyArg(f, b, l)
    \/ \E f \in Fleets : Called /\ SortBoats(f)
    \/ \E f \in Fleets : Called /\ SaveToFile(f)
    \/ \E f \in Fleets : Called /\ LoadFromFile(f)

SpecAnyArg == Init /\ [][NextAnyArg]_vars

\* the methods of Fleet that change or persist it
FleetCalls ==
    {"add_boat", "remove_boat", "transfer_boat", "record_arrival", "sort_boats",
     "save_to_file", "load_from_file"}

\* C12: no call of a Fleet method ends in a raised exception, whatever its arguments.
C12_FleetCallsNeverRaise ==
    last.op \in FleetCalls => last.res # "AttributeError"

\* ------------------------------------------------- sessions on a filled fleet
\* the constructor calls that fill the fleet of a query session
QueryCalls ==
    << [cls |-> "Boat", name |-> PyStr(<<"b">>), launch_date |-> PyDate(1),
        home_port |-> PyStr(<<"L", "o">>), flag |-> PyStr(<<"x">>)],
       [cls |-> "CargoBoat", name |-> PyStr(<<"a">>), launch_date |-> PyDate(2),
        home_port |-> PyStr(<<"O">>), flag |-> PyStr(<<"x">>),
        cargo_capacity |-> PyNum(5)],
       [cls |-> "MilitaryBoat", name |-> PyStr(<<"a">>), launch_date |-> PyDate(1),
        home_port |-> PyStr(<<"O">>), flag |-> PyStr(<<"l", "o">>),
        weapon_count |-> PyNum(4), is_authorised_by_gov |-> PyBool(TRUE)],
       [cls |-> "CargoBoat", name |-> PyStr(<<"B", "o">>), launch_date |-> PyDate(1),
        home_port |-> PyStr(<<"b">>), flag |-> PyStr(<<"X">>),
        cargo_capacity |-> PyNum(0)] >>

\* what a step of filling does: k in 1..Len(QueryCalls) constructs QueryCalls[k] and
\* adds the new boat to fleet "A"; 0 adds the newest boat to fleet "A" once more
FillSteps == 0..Len(QueryCalls)

\* the heap, boats and logs after the steps, starting from st
RECURSIVE Fill(_, _)
Fill(steps, st) ==
    IF steps = <<>> THEN st
    ELSE LET k == Head(steps)
             h1 == IF k = 0 THEN st.heap
                   ELSE Append(st.heap, Construct(QueryCalls[k]).obj)
         IN IF h1 = <<>> THEN Fill(Tail(steps), st)
            ELSE Fill(Tail(steps), AddEffect("A", Len(h1), h1, st.boats, st.logs))

\* a session that starts on a fleet "A" filled by constructor calls and add_boat
InitQuery ==
    \E n \in 0..MaxFleetLen :
        \E steps \in [1..n -> FillSteps] :
            LET st == Fill(steps, [heap |-> <<>>,
                                   boats |-> [f \in Fleets |-> <<>>],
                                   logs |-> [f \in Fleets |-> <<>>]])
            IN /\ heap = st.heap
               /\ boats = st.boats
               /\ logs = st.logs
               /\ file = NoFile
               /\ last = Call("init", NoFleet, PyNone, NoFleet, "none")
               /\ calls = 0

\* a query returns its message tag and, in value, what the returned text lists
Answer(op, f, arg, res, value) ==
    [op |-> op, fleet |-> f, boat |-> PyNone, target |-> NoFleet, res |-> res,
     arg |-> arg, value |-> value]

\* str.lower on the letters used
LowerChar(c) ==
    CASE c = "B" -> "b"
      [] c = "F" -> "f"
      [] c = "L" -> "l"
      [] c = "N" -> "n"
      [] c = "O" -> "o"
      [] c = "T" -> "t"
      [] c = "X" -> "x"
      [] OTHER -> c
Lower(s) == [k \in 1..Len(s) |-> LowerChar(s[k])]

\* sub in s, for strings
In(sub, s) ==
    \E k \in 0..(Len(s) - Len(sub)) : SubSeq(s, k + 1, k + Len(sub)) = sub

\* mutant of Matches: the comparison keeps the case
MatchesCaseSensitive(b, keyword) ==
    \/ In(keyword.v, b.name.v)
    \/ In(keyword.v, b.home_port.v)
    \/ In(keyword.v, b.flag.v)

\* the condition of the comprehension in filter_boats
Matches(b, keyword) ==
    \/ In(Lower(keyword.v), Lower(b.name.v))
    \/ In(Lower(keyword.v), Lower(b.home_port.v))
    \/ In(Lower(keyword.v), Lower(b.flag.v))

Keywords ==
    {PyStr(<<"l", "o">>), PyStr(<<"O">>), PyStr(<<"X">>), PyStr(<<"B">>),
     PyStr(<<"o", "l">>), PyStr(<<>>)}

\* Fleet.filter_boats
FilterBoats(f, keyword) ==
    LET results == SelectSeq(boats[f], LAMBDA i : Matches(heap[i], keyword))
    IN /\ last' = IF boats[f] = <<>>
                  THEN Answer("filter_boats", f, keyword, "empty_fleet", <<>>)
                  ELSE IF results = <<>>
                  THEN Answer("filter_boats", f, keyword, "no_results", <<>>)
                  ELSE Answer("filter_boats", f, keyword, "results", results)
       /\ UNCHANGED <<heap, boats, logs, file>>

\* sum(b.cargo_capacity for b in bs if isinstance(b, CargoBoat))
RECURSIVE TotalCargoCapacity(_, _)
TotalCargoCapacity(h, bs) ==
    IF bs = <<>> THEN 0
    ELSE (IF IsCargoBoat(h[Head(bs)]) THEN NumVal(h[Head(bs)].cargo_capacity) ELSE 0)
         + TotalCargoCapacity(h, Tail(bs))

\* mutant of StatusReport: the capacity line is written for every fleet
StatusReportAlwaysCapacity(h, bs) ==
    LET total_boats == Len(bs)
        cargo_boats == Len(SelectSeq(bs, LAMBDA i : IsCargoBoat(h[i])))
        military_boats == Len(SelectSeq(bs, LAMBDA i : IsMilitaryBoat(h[i])))
        regular_boats == total_boats - cargo_boats - military_boats
    IN << <<"Total Boats", total_boats>>,
          <<"Regular Boats", regular_boats>>,
          <<"Cargo Boats", cargo_boats>>,
          <<"Military Boats", military_boats>>,
          <<"Total Cargo Capacity", TotalCargoCapacity(h, bs)>> >>

\* the lines of the report of a non-empty fleet, each as <<label, number>>
StatusReport(h, bs) ==
    LET total_boats == Len(bs)
        cargo_boats == Len(SelectSeq(bs, LAMBDA i : IsCargoBoat(h[i])))
        military_boats == Len(SelectSeq(bs, LAMBDA i : IsMilitaryBoat(h[i])))
        regular_boats == total_boats - cargo_boats - military_boats
    IN << <<"Total Boats", total_boats>>,
          <<"Regular Boats", regular_boats>>,
          <<"Cargo Boats", cargo_boats>>,
          <<"Military Boats", military_boats>> >>
       \o (IF cargo_boats > 0
           THEN << <<"Total Cargo Capacity", TotalCargoCapacity(h, bs)>> >>
           ELSE <<>>)

\* Fleet.generate_status_report
GenerateStatusReport(f) ==
    /\ last' = IF boats[f] = <<>>
               THEN Answer("generate_status_report", f, PyNone, "empty_report", <<>>)
               ELSE Answer("generate_status_report", f, PyNone, "report",
                           StatusReport(heap, boats[f]))
    /\ UNCHANGED <<heap, boats, logs, file>>

\* the fleets of a query session are finitely many, so its calls are not counted
NextQuery ==
    \/ \E f \in Fleets : SortBoats(f) /\ UNCHANGED calls
    \/ \E f \in Fleets, keyword \in Keywords : FilterBoats(f, keyword) /\ UNCHANGED calls
    \/ \E f \in Fleets : GenerateStatusReport(f) /\ UNCHANGED calls

SpecQuery == InitQuery /\ [][NextQuery]_vars

NameOf(i) == heap[i].name.v
\* the elements of xs whose boat has name n, in their order in xs
WithName(xs, n) == SelectSeq(xs, LAMBDA i : NameOf(i) = n)

\* C13: sort leaves boats as the stable ascending-by-name arrangement of the same
\* elements: same elements with the same multiplicities, names non-decreasing, the
\* elements of equal name in their old relative order; sorting again changes nothing;
\* logs and every boat are unchanged.  An empty fleet is left as it is.
C13_SortStableAscending ==
    [][last'.op = "sort_boats" =>
          LET f == last'.fleet
              old == boats[f]
              new == boats'[f]
          IN /\ last'.res = IF old = <<>> THEN "empty_fleet" ELSE "sorted"
             /\ Len(new) = Len(old)
             /\ \A k \in 1..(Len(new) - 1) : ~StrLess(NameOf(new[k + 1]), NameOf(new[k]))
             /\ \A i \in 1..Len(heap) : WithName(new, NameOf(i)) = WithName(old, NameOf(i))
             /\ SortByName(heap', new) = new
             /\ \A g \in Fleets \ {f} : boats'[g] = boats[g]
             /\ UNCHANGED <<heap, logs, file>>]_vars

\* a sort that moved boats: the log lists the names in the order the boats joined,
\* which is no longer the order of boats; two different boats have the same name
C13_Witness ==
    /\ Returned("sort_boats", "sorted")
    /\ Len(logs[last.fleet]) = Len(boats[last.fleet])
    /\ \E k \in 1..Len(boats[last.fleet]) :
           logs[last.fleet][k].name # NameOf(boats[last.fleet][k])
    /\ \E j, k \in 1..Len(boats[last.fleet]) :
           /\ j < k
           /\ boats[last.fleet][j] # boats[last.fleet][k]
           /\ NameOf(boats[last.fleet][j]) = NameOf(boats[last.fleet][k])

\* the letters that differ only in case
CasePairs ==
    {<<"B", "b">>, <<"F", "f">>, <<"L", "l">>, <<"N", "n">>, <<"O", "o">>,
     <<"T", "t">>, <<"X", "x">>}
SameLetter(c, d) == c = d \/ <<c, d>> \in CasePairs \/ <<d, c>> \in CasePairs
\* sub occurs in s at some offset, letter by letter up to case
OccursIn(sub, s) ==
    \E off \in 0..(Len(s) - Len(sub)) :
        \A j \in 1..Len(sub) : SameLetter(sub[j], s[off + j])
Selected(i, keyword) ==
    \/ OccursIn(keyword.v, heap[i].name.v)
    \/ OccursIn(keyword.v, heap[i].home_port.v)
    \/ OccursIn(keyword.v, heap[i].flag.v)

\* C14: filter reports exactly the boats of the fleet for which the keyword, compared
\* case-insensitively, is a substring of the name, the home_port or the flag, in their
\* order in boats, and changes neither boats nor logs.
C14_FilterSelects ==
    [][last'.op = "filter_boats" =>
          LET f == last'.fleet
              sel == SelectSeq(boats[f], LAMBDA i : Selected(i, last'.arg))
          IN /\ last'.value = sel
             /\ last'.res = IF boats[f] = <<>> THEN "empty_fleet"
                            ELSE IF sel = <<>> THEN "no_results"
                            ELSE "results"
             /\ UNCHANGED <<heap, boats, logs, file>>]_vars

\* the keyword "lo" found a boat by its home port "Lo" and another by its flag, and
\* left out a boat of the fleet
C14_Witness ==
    /\ Returned("filter_boats", "results")
    /\ last.arg = PyStr(<<"l", "o">>)
    /\ Len(last.value) < Len(boats[last.fleet])
    /\ \E j, k \in 1..Len(last.value) :
           /\ j < k
           /\ heap[last.value[j]].home_port = PyStr(<<"L", "o">>)
           /\ heap[last.value[k]].flag = PyStr(<<"l", "o">>)

\* the number the report gives under a label; the labels it has
Labels(report) == {report[k][1] : k \in 1..Len(report)}
NumberOf(report, label) ==
    report[CHOOSE k \in 1..Len(report) : report[k][1] = label][2]
\* the positions of bs that hold a boat of class cls
PositionsOf(bs, cls) == {k \in 1..Len(bs) : heap[bs[k]].cls = cls}
\* the sum of cargo_capacity over the positions P of bs
RECURSIVE CapacityOver(_, _)
CapacityOver(bs, P) ==
    IF P = {} THEN 0
    ELSE LET k == CHOOSE x \in P : TRUE
         IN heap[bs[k]].cargo_capacity.v + CapacityOver(bs, P \ {k})

\* C17: the report is the empty-fleet message with no counts exactly when boats is
\* empty; otherwise total = length of boats, cargo and military count the boats of
\* those classes, regular = total - cargo - military is not negative, and the sum of
\* cargo_capacity over the cargo boats is reported exactly when there is a cargo boat.
C17_StatusReportCounts ==
    [][last'.op = "generate_status_report" =>
          LET bs == boats[last'.fleet]
              report == last'.value
              cargo == Cardinality(PositionsOf(bs, "CargoBoat"))
              military == Cardinality(PositionsOf(bs, "MilitaryBoat"))
          IN /\ last'.res = IF bs = <<>> THEN "empty_report" ELSE "report"
             /\ bs = <<>> => report = <<>>
             /\ bs # <<>> =>
                   /\ Labels(report) \ {"Total Cargo Capacity"} =
                          {"Total Boats", "Regular Boats", "Cargo Boats", "Military Boats"}
                   /\ Len(report) = Cardinality(Labels(report))
                   /\ NumberOf(report, "Total Boats") = Len(bs)
                   /\ NumberOf(report, "Cargo Boats") = cargo
                   /\ NumberOf(report, "Military Boats") = military
                   /\ NumberOf(report, "Regular Boats") = Len(bs) - cargo - military
                   /\ NumberOf(report, "Regular Boats") >= 0
                   /\ "Total Cargo Capacity" \in Labels(report) <=> cargo > 0
                   /\ cargo > 0 =>
                         NumberOf(report, "Total Cargo Capacity") =
                             CapacityOver(bs, PositionsOf(bs, "CargoBoat"))
             /\ UNCHANGED <<heap, boats, logs, file>>]_vars

\* a report on a fleet with a regular, a cargo and a military boat
C17_Witness ==
    /\ Returned("generate_status_report", "report")
    /\ NumberOf(last.value, "Regular Boats") = 1
    /\ NumberOf(last.value, "Military Boats") = 1
    /\ NumberOf(last.value, "Cargo Boats") = 1
    /\ NumberOf(last.value, "Total Cargo Capacity") = 5

\* C15: for a boat in the fleet's boats, record_arrival appends exactly one entry
\* "<name> arrived at <location>." to the fleet's logs and leaves the boat's
\* current_position, position_logs and current_fleet, and boats, unchanged.
C15_ArrivalOnlyLogs ==
    [][(last'.op = "record_arrival" /\ Contains(boats[last'.fleet], last'.boat.v)) =>
          LET f == last'.fleet
              v == last'.boat.v
          IN /\ last'.res = "arrival_recorded"
             /\ \E location \in Locations :
                    logs'[f] = Append(logs[f], [msg |-> "arrived at",
                                                name |-> heap[v].name.v,
                                                location |-> location.v])
             /\ \A g \in Fleets \ {f} : logs'[g] = logs[g]
             /\ heap'[v].current_position = heap[v].current_position
             /\ heap'[v].position_logs = heap[v].position_logs
             /\ heap'[v].current_fleet = heap[v].current_fleet
             /\ UNCHANGED <<heap, boats, file>>]_vars

\* an arrival recorded for a boat of the fleet that has a logged position
C15_Witness ==
    /\ Returned("record_arrival", "arrival_recorded")
    /\ Contains(boats[last.fleet], last.boat.v)
    /\ heap[last.boat.v].current_position \in Positions
    /\ logs[last.fleet][Len(logs[last.fleet])].msg = "arrived at"

\* C16: log_position(p) on any boat, in a fleet or not, sets current_position to p and
\* appends exactly one entry for p at the end of position_logs; it changes no fleet's
\* boats or logs, not the boat's current_fleet or fleet_history, and no other boat.
\* So current_position is the position of the last call and position_logs lists the
\* calls in call order.
C16_LogPositionAppends ==
    [][last'.op = "log_position" =>
          LET v == last'.boat.v
              p == last'.arg
          IN /\ heap'[v].current_position = p
             /\ heap'[v].position_logs =
                    Append(heap[v].position_logs, [msg |-> "Position", position |-> p.v])
             /\ heap'[v].current_fleet = heap[v].current_fleet
             /\ heap'[v].fleet_history = heap[v].fleet_history
             /\ Len(heap') = Len(heap)
             /\ \A i \in (1..Len(heap)) \ {v} : heap'[i] = heap[i]
             /\ UNCHANGED <<boats, logs, file>>]_vars

\* two calls with different positions on a boat that is in a fleet: position_logs
\* holds both in call order and current_position is the second
C16_Witness ==
    /\ Returned("log_position", "position_logged")
    /\ heap[last.boat.v].current_fleet \in Fleets
    /\ heap[last.boat.v].position_logs =
           <<[msg |-> "Position", position |-> <<"p">>],
             [msg |-> "Position", position |-> <<"x">>]>>
    /\ heap[last.boat.v].current_position = PyStr(<<"x">>)

\* ------------------------------------------------- constructor calls alone
\* the arguments a caller may pass, valid and invalid
NameArgs ==
    {PyStr(<<"a">>), PyStr(<<" ", "a">>), PyStr(<<>>), PyStr(<<" ">>), PyStr(<<" ", " ">>),
     PyNum(1), PyNone}
TextArgs == {PyStr(<<"L">>), PyStr(<<" ">>), PyStr(<<>>), PyNone}
LaunchDateArgs ==
    {PyNone, PyDate(1), PyDate(3), PyNum(86400), PyStr(IsoFormat(2)),
     PyStr(<<"x">>), PyStr(<<>>)}
AmountArgs == {PyNum(-1), PyNum(0), PyNum(5), PyStr(<<"1">>)}
AuthorisedArgs == {PyBool(TRUE), PyBool(FALSE), PyNone}

BoatArgs ==
    [cls : {"Boat"}, name : NameArgs, launch_date : LaunchDateArgs,
     home_port : TextArgs, flag : TextArgs]
CargoBoatArgs ==
    [cls : {"CargoBoat"}, name : NameArgs, launch_date : LaunchDateArgs,
     home_port : TextArgs, flag : TextArgs, cargo_capacity : AmountArgs]
MilitaryBoatArgs ==
    [cls : {"MilitaryBoat"}, name : NameArgs, launch_date : LaunchDateArgs,
     home_port : TextArgs, flag : TextArgs, weapon_count : AmountArgs,
     is_authorised_by_gov : AuthorisedArgs]

\* a session of one constructor call, the constructors being functions of their
\* arguments; the caller keeps the new boat only as the call's value
ConstructOnly(c) ==
    LET r == Construct(c) IN
    /\ calls = 0
    /\ calls' = 1
    /\ last' = IF r.err THEN Answer(c.cls, NoFleet, c, r.exc, PyNone)
               ELSE Answer(c.cls, NoFleet, c, "created", r.obj)
    /\ UNCHANGED <<heap, boats, logs, file>>

NextCtor ==
    \/ \E c \in BoatArgs : ConstructOnly(c)
    \/ \E c \in CargoBoatArgs : ConstructOnly(c)
    \/ \E c \in MilitaryBoatArgs : ConstructOnly(c)

SpecCtor == Init /\ [][NextCtor]_vars

Classes == {"Boat", "CargoBoat", "MilitaryBoat"}
\* an ISO-formatted date text
IsIsoText(s) == \E d \in 1..Len(DayDigit) : s = <<"d", DayDigit[d]>>
\* x is a date value, a numeric timestamp or an ISO-formatted string
IsDateLike(x) == x.t = "date" \/ x.t = "num" \/ (x.t = "str" /\ IsIsoText(x.v))

\* C18: a constructor call fails with a validation error whenever launch_date is
\* unset or is neither a date, a numeric timestamp nor an ISO-formatted string; on
\* success the stored launch_date is a calendar date.
C18_LaunchDateValidated ==
    last.op \in Classes =>
        /\ ~IsDateLike(last.arg.launch_date) => last.res = "ValueError"
        /\ last.res = "created" => last.value.launch_date.t = "date"

\* x is empty, whitespace-only or not a string
IsBlank(x) == x.t # "str" \/ \A k \in 1..Len(x.v) : x.v[k] = " "
\* the fields every variant shares are valid
BaseFieldsValid(c) ==
    /\ ~IsBlank(c.name)
    /\ ~IsBlank(c.home_port)
    /\ ~IsBlank(c.flag)
    /\ IsDateLike(c.launch_date)

C20_BlankTextRejected ==
    last.op \in Classes =>
        /\ (IsBlank(last.arg.name) \/ IsBlank(last.arg.home_port) \/ IsBlank(last.arg.flag)) =>
               last.res = "ValueError" /\ last.value = PyNone
        /\ last.res = "created" =>
               /\ last.value.position_logs = <<>>
               /\ last.value.current_position = PyNone
               /\ last.value.current_fleet = NoFleet
               /\ last.value.fleet_history = <<>>

\* a military boat with a whitespace-only flag and every other field valid is rejected
C20_Witness ==
    /\ Returned("MilitaryBoat", "ValueError")
    /\ last.arg.flag = PyStr(<<" ">>)
    /\ ~IsBlank(last.arg.name)
    /\ ~IsBlank(last.arg.home_port)
    /\ IsDateLike(last.arg.launch_date)
    /\ last.arg.weapon_count = PyNum(5)
    /\ last.arg.is_authorised_by_gov = PyBool(TRUE)
    /\ last.value = PyNone

\* boat i, which exists before and after the step, has its current_fleet changed by
\* the step only as add (directly or inside a transfer) and remove change it
RebindingOnlyByAddOrRemove(i) ==
    heap'[i].current_fleet # heap[i].current_fleet =>
        /\ last'.boat = Ref(i)
        /\ IF heap'[i].current_fleet = NoFleet
             THEN last'.op = "remove_boat"
             ELSE \/ last'.op = "add_boat" /\ last'.fleet = heap'[i].current_fleet
                  \/ last'.op = "transfer_boat" /\ last'.target = heap'[i].current_fleet

\* C21 as stated: current_fleet becomes a fleet R only in a step that is R.add of the
\* boat (directly or inside a transfer) and becomes unset only in a remove of the boat;
\* every boat starts with current_fleet unset; no other operation binds or unbinds.
C21_BoundOnlyByAdd ==
    [][/\ \A i \in 1..Len(heap) : RebindingOnlyByAddOrRemove(i)
       /\ \A i \in (Len(heap) + 1)..Len(heap') : heap'[i].current_fleet = NoFleet]_vars

\* C21 amended: as stated for the boats that exist, and a boat starts with
\* current_fleet unset unless it is created by R.load_from_file, which creates it
\* bound to R.
C21_BoundOnlyByAddOrCreatedByLoad ==
    [][/\ \A i \in 1..Len(heap) : RebindingOnlyByAddOrRemove(i)
       /\ \A i \in (Len(heap) + 1)..Len(heap') :
              \/ heap'[i].current_fleet = NoFleet
              \/ /\ last'.op = "load_from_file"
                 /\ heap'[i].current_fleet = last'.fleet]_vars

\* a load has created a boat that is bound to the loading fleet from its first state,
\* while an older boat is still bound by its add
C21_Witness ==
    /\ Returned("load_from_file", "loaded")
    /\ Len(heap) >= 2
    /\ heap[Len(heap)].fleet_history = <<last.fleet>>
    /\ heap[Len(heap)].current_fleet = last.fleet
    /\ heap[1].current_fleet \in Fleets

\* ------------------------------------------------ documents and boats alone
\* a dict without key k
DropKey(d, k) == [x \in (DOMAIN d) \ {k} |-> d[x]]
\* the keys every to_dict writes
BaseDocument ==
    [name |-> PyStr(<<"a">>), launch_date |-> PyStr(IsoFormat(1)),
     home_port |-> PyStr(<<"L">>), flag |-> PyStr(<<"x">>),
     current_position |-> PyStr(<<"p">>),
     position_logs |-> <<PositionEntry(PyStr(<<"p">>))>>]
\* the boat documents a file may hold: any of the variant keys present or absent,
\* valid and invalid amounts, required and optional keys missing
Documents ==
    { DropKey(DropKey(DropKey(DropKey(DropKey(
          BaseDocument @@ [cargo_capacity |-> cc, weapon_count |-> wc,
                           is_authorised_by_gov |-> PyBool(TRUE)],
          IF cc = PyNone THEN "cargo_capacity" ELSE "-"),
          IF wc = PyNone THEN "weapon_count" ELSE "-"),
          au), req), opt) :
        cc \in {PyNone, PyNum(5), PyNum(-1)},
        wc \in {PyNone, PyNum(0), PyNum(-1)},
        au \in {"-", "is_authorised_by_gov"},
        req \in {"-", "name", "launch_date"},
        opt \in {"-", "current_position", "position_logs"} }

\* a session that reconstructs one boat from one document, as load_from_file's loop
\* does it; the caller keeps the boat only as the call's value
ReconstructOnly(d) ==
    LET r == LoadOne(d) IN
    /\ calls = 0
    /\ calls' = 1
    /\ last' = IF r.err THEN Answer("reconstruct", NoFleet, d, r.exc, PyNone)
               ELSE Answer("reconstruct", NoFleet, d, "created", r.obj)
    /\ UNCHANGED <<heap, boats, logs, file>>

\* a session that constructs one boat and takes its to_dict()
ToDictOnly(c) ==
    LET r == Construct(c) IN
    /\ calls = 0
    /\ calls' = 1
    /\ ~r.err
    /\ last' = Answer("to_dict", NoFleet, r.obj, "document", ToDict(r.obj))
    /\ UNCHANGED <<heap, boats, logs, file>>

NextCodec ==
    \/ \E d \in Documents : ReconstructOnly(d)
    \/ \E c \in BoatArgs : ToDictOnly(c)
    \/ \E c \in CargoBoatArgs : ToDictOnly(c)
    \/ \E c \in MilitaryBoatArgs : ToDictOnly(c)

SpecCodec == Init /\ [][NextCodec]_vars

VariantKeys == {"cargo_capacity", "weapon_count", "is_authorised_by_gov"}
\* to_dict of a base, cargo or military boat writes respectively none of the variant
\* keys, only cargo_capacity, and only weapon_count with is_authorised_by_gov; the
\* document is reconstructed as a boat of the same class
ToDictKeepsVariant ==
    last.op = "to_dict" =>
        /\ (DOMAIN last.value) \cap VariantKeys =
               CASE last.arg.cls = "CargoBoat" -> {"cargo_capacity"}
                 [] last.arg.cls = "MilitaryBoat" -> {"weapon_count", "is_authorised_by_gov"}
                 [] OTHER -> {}
        /\ ~LoadOne(last.value).err
        /\ LoadOne(last.value).obj.cls = last.arg.cls

\* C22 as stated: every document that has cargo_capacity yields a cargo boat, every
\* document that has weapon_count yields a military boat, a document with neither
\* yields a base boat (taken over the documents from which a boat is built); to_dict
\* keeps the variant.
C22_VariantByFieldPresence ==
    /\ Returned("reconstruct", "created") =>
           /\ HasKey(last.arg, "cargo_capacity") => last.value.cls = "CargoBoat"
           /\ HasKey(last.arg, "weapon_count") => last.value.cls = "MilitaryBoat"
           /\ (~HasKey(last.arg, "cargo_capacity") /\ ~HasKey(last.arg, "weapon_count")) =>
                  last.value.cls = "Boat"
    /\ ToDictKeepsVariant

\* C22 amended: cargo_capacity is looked for first; weapon_count decides only in a
\* document without cargo_capacity.
C22_VariantByFirstFieldPresent ==
    /\ Returned("reconstruct", "created") =>
           /\ HasKey(last.arg, "cargo_capacity") =>
                  /\ last.value.cls = "CargoBoat"
                  /\ ~HasKey(last.value, "weapon_count")
           /\ (HasKey(last.arg, "weapon_count") /\ ~HasKey(last.arg, "cargo_capacity")) =>
                  last.value.cls = "MilitaryBoat"
           /\ (~HasKey(last.arg, "cargo_capacity") /\ ~HasKey(last.arg, "weapon_count")) =>
                  last.value.cls = "Boat"
    /\ ToDictKeepsVariant

\* a document with both cargo_capacity and weapon_count was rebuilt as a cargo boat
C22_Witness ==
    /\ Returned("reconstruct", "created")
    /\ HasKey(last.arg, "cargo_capacity")
    /\ HasKey(last.arg, "weapon_count")
    /\ last.value.cls = "CargoBoat"

\* ------------------------------------------------- loading any file
\* fleet_data.json holds text that json.load cannot parse
GarbledFile == [exists |-> TRUE, text |-> "not json"]
IsGarbled(fl) == HasKey(fl, "text")

\* boat documents of a file: two that load, one without its name, one whose
\* cargo_capacity the constructor rejects
FileDocuments ==
    { BaseDocument,
      BaseDocument @@ [cargo_capacity |-> PyNum(5)],
      DropKey(BaseDocument, "name"),
      BaseDocument @@ [cargo_capacity |-> PyNum(-1)] }
MaxFileLen == 2
FileLogs == {<<>>, <<Entry("joined the fleet.", PyStr(<<"a">>))>>}
\* what fleet_data.json may hold when load_from_file is called
Files ==
    {NoFile, GarbledFile}
    \cup { [exists |-> TRUE, boats |-> docs, logs |-> lg] :
             docs \in UNION {[1..n -> FileDocuments] : n \in 0..MaxFileLen},
             lg \in FileLogs }

\* Fleet.load_from_file on any file
LoadAnyFile(f) ==
    IF ~file.exists
      THEN /\ last' = Call("load_from_file", f, PyNone, NoFleet, "no_saved_data")
           /\ UNCHANGED <<heap, boats, logs, file>>
    ELSE IF IsGarbled(file)
      THEN /\ last' = Call("load_from_file", f, PyNone, NoFleet, "load_error")
           /\ UNCHANGED <<heap, boats, logs, file>>
    ELSE LET r == LoadLoop(file.boats, f, heap, <<>>) IN
         /\ heap' = r.heap
         /\ boats' = [boats EXCEPT ![f] = r.boats]
         /\ logs' = [logs EXCEPT ![f] = file.logs]
         /\ last' = Call("load_from_file", f, PyNone, NoFleet,
                         IF r.err THEN "load_error" ELSE "loaded")
         /\ UNCHANGED file

\* a session of one load, made on a filled fleet "A" with any file on disk
InitFile ==
    \E n \in 0..MaxFleetLen :
        \E steps \in [1..n -> FillSteps], fl \in Files :
            LET st == Fill(steps, [heap |-> <<>>,
                                   boats |-> [f \in Fleets |-> <<>>],
                                   logs |-> [f \in Fleets |-> <<>>]])
            IN /\ heap = st.heap
               /\ boats = st.boats
               /\ logs = st.logs
               /\ file = fl
               /\ last = Call("init", NoFleet, PyNone, NoFleet, "none")
               /\ calls = 0

NextFile ==
    \E f \in Fleets : calls = 0 /\ calls' = 1 /\ LoadAnyFile(f)

SpecFile == InitFile /\ [][NextFile]_vars

\* C23: when load returns a failure result, the fleet's boats and logs are exactly
\* what they were before the load.
C23_FailedLoadChangesNothing ==
    [][(last'.op = "load_from_file" /\ last'.res = "load_error") =>
          /\ boats'[last'.fleet] = boats[last'.fleet]
          /\ logs'[last'.fleet] = logs[last'.fleet]]_vars

\* C24: in every reachable state, every boat contained in a fleet's boats has
\* current_fleet referencing that fleet.
C24_MembersPointToTheirFleet ==
    \A f \in Fleets :
        \A k \in 1..Len(boats[f]) : heap[boats[f][k]].current_fleet = f

\* the occurrences of boat i in the lists of fleets f and t together
Occurrences(bs, f, t, i) ==
    Count(bs[f], i) + (IF t = f THEN 0 ELSE Count(bs[t], i))

\* C25: a transfer of v from fleet A to fleet B, successful or failed, leaves the
\* number of occurrences of v in A.boats and B.boats together as it was, and leaves
\* the occurrences of every other boat and their relative order in every fleet as
\* they were.
C25_TransferConservesBoats ==
    [][last'.op = "transfer_boat" =>
          LET f == last'.fleet
              t == last'.target
              i == last'.boat.v
          IN /\ Occurrences(boats', f, t, i) = Occurrences(boats, f, t, i)
             /\ \A g \in Fleets : Without(boats'[g], i) = Without(boats[g], i)
             /\ \A g \in Fleets \ {f, t} : boats'[g] = boats[g]
             /\ last'.res = "not_found" => boats' = boats]_vars

\* a successful transfer into another fleet that already held a different boat
C25_Witness ==
    /\ Returned("transfer_boat", "transferred")
    /\ last.target # last.fleet
    /\ Len(boats[last.target]) >= 2
    /\ boats[last.target][1] # last.boat.v
    /\ boats[last.target][Len(boats[last.target])] = last.boat.v

\* C26: a boat's fleet_history only grows, each earlier value a prefix of each later
\* one, and whenever its current_fleet is set it is the last element of its
\* fleet_history.
C26_HistoryGrowsAndEndsAtCurrent ==
    /\ [][\A i \in 1..Len(heap) :
              /\ i <= Len(heap')
              /\ IsPrefix(heap[i].fleet_history, heap'[i].fleet_history)]_vars
    /\ [](\A i \in 1..Len(heap) :
              heap[i].current_fleet # NoFleet =>
                  /\ heap[i].fleet_history # <<>>
                  /\ heap[i].fleet_history[Len(heap[i].fleet_history)]
                         = heap[i].current_fleet)

\* a boat that belonged to one fleet and then to the other: both are in its history,
\* in that order, and it is bound to the second
C26_Witness ==
    \E i \in 1..Len(heap) :
        /\ Len(heap[i].fleet_history) = 2
        /\ heap[i].fleet_history[1] # heap[i].fleet_history[2]
        /\ heap[i].current_fleet = heap[i].fleet_history[2]
        /\ last.op \in {"add_boat", "transfer_boat"}
        /\ last.boat = Ref(i)

====
